---- MODULE Spec2Model ----
(***************************************************************************)
(* A model of meshrefine's refine_and_export.py: the command-line driver   *)
(* main(), and the RefineAndExport constructor with its helpers _refine    *)
(* and _get_mesh.  Strings (paths, the -r argument) are sequences of       *)
(* one-character strings.  An optional value is <<>> (None) or <<x>>.      *)
(* Calls into Zinc / scaffoldmaker are steps whose outcome (return or      *)
(* raise, and what a read leaves in the region) is chosen by \E.           *)
(***************************************************************************)
EXTENDS Integers, Sequences, FiniteSets, TLC

VARIABLES
    args,               \* the namespace parse_args returns
    fs,                 \* the paths that exist on the file system
    pc,                 \* position in main / RefineAndExport.__init__
    err,                \* the exception that ended the run, "none" otherwise
    output_ex,          \* main's local output_ex
    output_vtk,         \* main's local output_vtk
    exelem_file,        \* main's local exelem_file
    refine_factor,      \* main's refine_factor, then self._refine_factor
    input_exelem_file,  \* the constructor's parameter of that name
    context,            \* TRUE once the Zinc context and region exist
    sizes,              \* sizes[d]: element count of the d-dimensional mesh
    groups,             \* number of annotation groups
    sub_i,              \* groups on which addSubelements has been called
    mesh_dim,           \* dimension of the mesh _get_mesh returned, 0 before
    element,            \* position of the element iterator in that mesh
    calls,              \* the calls of refineElementCubeStandard3d, in order
    trace               \* the library calls made so far, in order

vars == <<args, fs, pc, err, output_ex, output_vtk, exelem_file, refine_factor,
          input_exelem_file, context, sizes, groups, sub_i, mesh_dim, element,
          calls, trace>>

----------------------------------------------------------------------------
(* Bounds of the model. *)
MaxElems == 2
MaxGroups == 2
MaxPathLen == 4
MaxFactorLen == 3

None == <<>>
Some(x) == <<x>>

SeqsUpTo(S, lo, hi) == UNION {[1..k -> S] : k \in lo..hi}

PathChars == {"a", ".", "/"}
FactorChars == {"0", "1", "2", ","}

----------------------------------------------------------------------------
(* String functions of Python used by main(). *)

RECURSIVE IndexOf(_, _, _)
\* least i >= from with s[i] = c, 0 when there is none (str.find, 1-based)
IndexOf(s, c, from) ==
    IF from > Len(s) THEN 0
    ELSE IF s[from] = c THEN from ELSE IndexOf(s, c, from + 1)

RECURSIVE LastIndexOf(_, _, _)
\* greatest i <= from with s[i] = c, 0 when there is none (str.rfind, 1-based)
LastIndexOf(s, c, from) ==
    IF from < 1 THEN 0
    ELSE IF s[from] = c THEN from ELSE LastIndexOf(s, c, from - 1)

RECURSIVE split(_, _)
\* str.split(sep) for a one-character separator
split(s, sep) ==
    LET i == IndexOf(s, sep, 1) IN
    IF i = 0 THEN <<s>>
    ELSE <<SubSeq(s, 1, i - 1)>> \o split(SubSeq(s, i + 1, Len(s)), sep)

RECURSIVE rstrip(_, _)
rstrip(s, c) ==
    IF Len(s) > 0 /\ s[Len(s)] = c THEN rstrip(SubSeq(s, 1, Len(s) - 1), c) ELSE s

\* posixpath.basename
basename(p) == SubSeq(p, LastIndexOf(p, "/", Len(p)) + 1, Len(p))

\* posixpath.dirname
dirname(p) ==
    LET head == SubSeq(p, 1, LastIndexOf(p, "/", Len(p))) IN
    IF head # <<>> /\ \E i \in 1..Len(head) : head[i] # "/"
    THEN rstrip(head, "/") ELSE head

\* posixpath.join of two components
join(a, b) ==
    IF Len(b) > 0 /\ b[1] = "/" THEN b
    ELSE IF a = <<>> \/ a[Len(a)] = "/" THEN a \o b
    ELSE a \o <<"/">> \o b

refined_dot == <<"_", "r", "e", "f", "i", "n", "e", "d", ".">>
vtk == <<"v", "t", "k">>

DigitChars == <<"0", "1", "2", "3", "4", "5", "6", "7", "8", "9">>
IsDigit(c) == \E i \in 1..10 : DigitChars[i] = c
\* int(c) for a one-character string that is a decimal digit
int(c) == (CHOOSE i \in 1..10 : DigitChars[i] = c) - 1

\* a check that takes every path to exist
path_exists_always(p) == TRUE

\* os.path.exists
path_exists(p) == p \in fs

\* the default of output_ex; defined when filename.split('.') has two parts
DefaultOutputEx(input_ex) ==
    LET filename == basename(input_ex)
        dir == dirname(input_ex)
    IN join(dir, split(filename, ".")[1] \o refined_dot \o split(filename, ".")[2])

DefaultOutputVtk(input_ex) ==
    LET filename == basename(input_ex)
        dir == dirname(input_ex)
    IN join(dir, split(filename, ".")[1] \o refined_dot \o vtk)

\* [int(i) for i in list(s)]
ParseFactor(s) == [i \in 1..Len(s) |-> int(s[i])]

DefaultFactor == <<4, 4, 1>>

----------------------------------------------------------------------------
(* The mesh library, as far as the script uses it. *)

Event(op, arg) == [op |-> op, arg |-> arg]

MeshSizes == [1..3 -> 0..MaxElems]

RECURSIVE GetMeshFrom(_, _)
\* the loop of _get_mesh from dimension d downwards; 0 stands for the raise
GetMeshFrom(sz, d) ==
    IF d = 0 THEN 0
    ELSE IF sz[d] > 0 THEN d ELSE GetMeshFrom(sz, d - 1)

\* the loop run from dimension 1 upwards
get_mesh_lowfirst(sz) ==
    IF sz[1] > 0 THEN 1 ELSE IF sz[2] > 0 THEN 2 ELSE IF sz[3] > 0 THEN 3 ELSE 0

\* the loop falling through to the last mesh it looked at instead of raising
get_mesh_noraise(sz) == IF GetMeshFrom(sz, 3) = 0 THEN 1 ELSE GetMeshFrom(sz, 3)

get_mesh(sz) == GetMeshFrom(sz, 3)

\* a validity test that ends the iteration one element early
isValid_short(e, n) == e < n

\* element.isValid() for the iterator position e of a mesh of n elements
isValid(e, n) == e <= n

\* the counts _refine passes for a refine-factor list of at least one entry
RefineCounts(rf) ==
    <<rf[1],
      IF Len(rf) > 1 THEN rf[2] ELSE 1,
      IF Len(rf) > 2 THEN rf[3] ELSE 1>>

\* what defineAllFaces may leave: faces and lines are added to the meshes
\* below a non-empty mesh, no mesh loses elements, the top mesh is untouched
FacesDefined(sz) ==
    {s \in MeshSizes :
        /\ s[3] = sz[3]
        /\ \A d \in 1..2 :
              /\ s[d] >= sz[d]
              /\ (\A e \in (d + 1)..3 : sz[e] = 0) => s[d] = sz[d]}

Ops(tr) == [i \in 1..Len(tr) |-> tr[i].op]
Count(tr, op) == Cardinality({i \in 1..Len(tr) : tr[i].op = op})

----------------------------------------------------------------------------
(* Inputs. *)

InputPaths == {<<"a", ".", "a">>, <<"a">>}

RefineArgs ==
    {None, Some(<<>>), Some(<<"2">>), Some(<<"0">>), Some(<<",">>),
     Some(<<"2", "0">>), Some(<<"2", ",", "2">>), Some(<<"2", "2", "2">>),
     Some(<<"1", "2", "2", "2">>)}

Blank ==
    /\ pc = "main"
    /\ err = "none"
    /\ output_ex = <<>>
    /\ output_vtk = <<>>
    /\ exelem_file = None
    /\ refine_factor = <<>>
    /\ input_exelem_file = None
    /\ context = FALSE
    /\ sizes = [d \in 1..3 |-> 0]
    /\ groups = 0
    /\ sub_i = 0
    /\ mesh_dim = 0
    /\ element = 0
    /\ calls = <<>>
    /\ trace = <<>>

\* the state when main() has called parse_args()
Init ==
    /\ args \in [input_ex : InputPaths,
                 exelem : {None, Some(<<"e">>)},
                 refine_factor : RefineArgs,
                 output_ex : {None, Some(<<"o">>)},
                 output_vtk : {None, Some(<<"v">>)}]
    /\ fs \in {{}, {args.input_ex}}
    /\ Blank

\* the arguments of main() alone: every path and every -r string in the bounds
InitArgs ==
    /\ args \in [input_ex : SeqsUpTo(PathChars, 1, MaxPathLen),
                 exelem : {None},
                 refine_factor : {None} \cup
                     {Some(s) : s \in SeqsUpTo(FactorChars, 0, MaxFactorLen)},
                 output_ex : {None, Some(<<"o">>)},
                 output_vtk : {None}]
    /\ fs = {args.input_ex}
    /\ Blank

----------------------------------------------------------------------------
(* main() up to the call of RefineAndExport. *)

Fail(e) ==
    /\ pc' = "failed"
    /\ err' = e

Main ==
    /\ pc = "main"
    /\ UNCHANGED <<args, fs, input_exelem_file, context, sizes, groups, sub_i,
                   mesh_dim, element, calls, trace>>
    /\ IF ~path_exists(args.input_ex)
       THEN /\ pc' = "done"
            /\ UNCHANGED <<err, output_ex, output_vtk, exelem_file, refine_factor>>
       ELSE IF args.output_ex = None
               /\ Len(split(basename(args.input_ex), ".")) < 2
       THEN /\ Fail("IndexError")
            /\ UNCHANGED <<output_ex, output_vtk, exelem_file, refine_factor>>
       ELSE /\ output_ex' = IF args.output_ex = None
                            THEN DefaultOutputEx(args.input_ex)
                            ELSE args.output_ex[1]
            /\ output_vtk' = IF args.output_vtk = None
                             THEN DefaultOutputVtk(args.input_ex)
                             ELSE args.output_vtk[1]
            /\ exelem_file' = args.exelem
            /\ IF args.refine_factor = None
               THEN /\ refine_factor' = DefaultFactor
                    /\ pc' = "init"
                    /\ UNCHANGED err
               ELSE IF \E i \in 1..Len(args.refine_factor[1]) :
                          ~IsDigit(args.refine_factor[1][i])
               THEN /\ Fail("ValueError: invalid literal for int()")
                    /\ UNCHANGED refine_factor
               ELSE /\ refine_factor' = ParseFactor(args.refine_factor[1])
                    /\ pc' = "init"
                    /\ UNCHANGED err

----------------------------------------------------------------------------
(* RefineAndExport.__init__, statement by statement. *)

\* lines 23-26: the call binds input_exelem_file=None; context and region
CreateContext ==
    /\ pc = "init"
    /\ context' = TRUE
    /\ input_exelem_file' = None
    /\ pc' = "read_input"
    /\ UNCHANGED <<args, fs, err, output_ex, output_vtk, exelem_file,
                   refine_factor, sizes, groups, sub_i, mesh_dim, element,
                   calls, trace>>

\* line 27: the result code of readFile is dropped; the read may raise
ReadInput ==
    /\ pc = "read_input"
    /\ trace' = Append(trace, Event("readInput", 0))
    /\ \/ /\ sizes' \in MeshSizes
          /\ pc' = "read_exelem"
          /\ UNCHANGED err
       \/ /\ Fail("ReadError")
          /\ UNCHANGED sizes
    /\ UNCHANGED <<args, fs, output_ex, output_vtk, exelem_file, refine_factor,
                   input_exelem_file, context, groups, sub_i, mesh_dim,
                   element, calls>>

\* lines 28-29
ReadExelem ==
    /\ pc = "read_exelem"
    /\ IF input_exelem_file # None
       THEN /\ trace' = Append(trace, Event("readExelem", 0))
            /\ \/ /\ sizes' \in {s \in MeshSizes : \A d \in 1..3 : s[d] >= sizes[d]}
                  /\ pc' = "groups"
                  /\ UNCHANGED err
               \/ /\ Fail("ReadError")
                  /\ UNCHANGED sizes
       ELSE /\ pc' = "groups"
            /\ UNCHANGED <<trace, sizes, err>>
    /\ UNCHANGED <<args, fs, output_ex, output_vtk, exelem_file, refine_factor,
                   input_exelem_file, context, groups, sub_i, mesh_dim,
                   element, calls>>

\* lines 30-32: one AnnotationGroup for each group of the field module
DeriveGroups ==
    /\ pc = "groups"
    /\ groups' \in 0..MaxGroups
    /\ trace' = Append(trace, Event("groups", 0))
    /\ pc' = "faces"
    /\ UNCHANGED <<args, fs, err, output_ex, output_vtk, exelem_file,
                   refine_factor, input_exelem_file, context, sizes, sub_i,
                   mesh_dim, element, calls>>

\* line 33
DefineAllFaces ==
    /\ pc = "faces"
    /\ sizes' \in FacesDefined(sizes)
    /\ trace' = Append(trace, Event("defineAllFaces", 0))
    /\ pc' = "subelements"
    /\ UNCHANGED <<args, fs, err, output_ex, output_vtk, exelem_file,
                   refine_factor, input_exelem_file, context, groups, sub_i,
                   mesh_dim, element, calls>>

\* the loop closing the first group only
AddSubelements_first ==
    /\ pc = "subelements"
    /\ IF sub_i < groups
       THEN /\ sub_i' = groups
            /\ trace' = Append(trace, Event("addSubelements", sub_i + 1))
            /\ UNCHANGED pc
       ELSE /\ pc' = "refine"
            /\ UNCHANGED <<sub_i, trace>>
    /\ UNCHANGED <<args, fs, err, output_ex, output_vtk, exelem_file,
                   refine_factor, input_exelem_file, context, sizes, groups,
                   mesh_dim, element, calls>>

\* lines 34-35: one pass of the loop, or its end
AddSubelements ==
    /\ pc = "subelements"
    /\ IF sub_i < groups
       THEN /\ sub_i' = sub_i + 1
            /\ trace' = Append(trace, Event("addSubelements", sub_i + 1))
            /\ UNCHANGED pc
       ELSE /\ pc' = "refine"
            /\ UNCHANGED <<sub_i, trace>>
    /\ UNCHANGED <<args, fs, err, output_ex, output_vtk, exelem_file,
                   refine_factor, input_exelem_file, context, sizes, groups,
                   mesh_dim, element, calls>>

\* lines 38-39 and 50-54: child region, MeshRefinement, _get_mesh, iterator
RefineBegin ==
    /\ pc = "refine"
    /\ IF get_mesh(sizes) = 0
       THEN /\ Fail("ValueError: Model contains no mesh")
            /\ UNCHANGED <<mesh_dim, element>>
       ELSE /\ mesh_dim' = get_mesh(sizes)
            /\ element' = 1
            /\ pc' = "refine_loop"
            /\ UNCHANGED err
    /\ UNCHANGED <<args, fs, output_ex, output_vtk, exelem_file, refine_factor,
                   input_exelem_file, context, sizes, groups, sub_i, calls,
                   trace>>

\* lines 55-67: one pass of the while loop, or its end and the return
RefineElement ==
    /\ pc = "refine_loop"
    /\ IF ~isValid(element, sizes[mesh_dim])
       THEN /\ pc' = "write_zinc"
            /\ UNCHANGED <<err, element, calls, trace>>
       ELSE IF Len(refine_factor) = 0
       THEN /\ Fail("IndexError")
            /\ UNCHANGED <<element, calls, trace>>
       ELSE /\ calls' = Append(calls, [dim |-> mesh_dim, idx |-> element,
                                       n |-> RefineCounts(refine_factor)])
            /\ trace' = Append(trace, Event("refine", element))
            /\ \/ /\ element' = element + 1
                  /\ UNCHANGED <<pc, err>>
               \/ /\ Fail("RefineError")
                  /\ UNCHANGED element
    /\ UNCHANGED <<args, fs, output_ex, output_vtk, exelem_file, refine_factor,
                   input_exelem_file, context, sizes, groups, sub_i, mesh_dim>>

\* line 42
WriteZinc ==
    /\ pc = "write_zinc"
    /\ trace' = Append(trace, Event("writeZinc", 0))
    /\ \/ /\ pc' = "write_vtk"
          /\ UNCHANGED err
       \/ Fail("WriteError")
    /\ UNCHANGED <<args, fs, output_ex, output_vtk, exelem_file, refine_factor,
                   input_exelem_file, context, sizes, groups, sub_i, mesh_dim,
                   element, calls>>

\* lines 45-47
WriteVtk ==
    /\ pc = "write_vtk"
    /\ trace' = Append(trace, Event("writeVtk", 0))
    /\ \/ /\ pc' = "done"
          /\ UNCHANGED err
       \/ Fail("WriteError")
    /\ UNCHANGED <<args, fs, output_ex, output_vtk, exelem_file, refine_factor,
                   input_exelem_file, context, sizes, groups, sub_i, mesh_dim,
                   element, calls>>

Next ==
    \/ Main
    \/ CreateContext
    \/ ReadInput
    \/ ReadExelem
    \/ DeriveGroups
    \/ DefineAllFaces
    \/ AddSubelements
    \/ RefineBegin
    \/ RefineElement
    \/ WriteZinc
    \/ WriteVtk

Spec == Init /\ [][Next]_vars

\* the run is one thread: a step that can be taken is taken
FairSpec == Spec /\ WF_vars(Next)

\* main() alone, over every argument in the bounds
SpecArgs == InitArgs /\ [][Main]_vars

----------------------------------------------------------------------------
(* Vocabulary of the properties. *)

InputExists == args.input_ex \in fs

NoZeros == [d \in 1..3 |-> 0]

Written == Count(trace, "writeZinc") + Count(trace, "writeVtk")

\* the constructor has come back from self._get_mesh(), one way or the other
PastGetMesh ==
    /\ context
    /\ pc \in {"refine_loop", "write_zinc", "write_vtk", "done", "failed"}
    /\ err # "ReadError"

\* the while loop of _refine has ended with element.isValid() false
LoopEnded ==
    \/ pc \in {"write_zinc", "write_vtk"}
    \/ pc = "done" /\ context
    \/ pc = "failed" /\ err = "WriteError"

\* the highest dimension with elements, 0 when there is none
Dominant(sz) ==
    IF sz = NoZeros THEN 0
    ELSE CHOOSE d \in 1..3 : sz[d] > 0 /\ \A e \in 1..3 : sz[e] > 0 => e <= d

\* C1: when the input exists and -exelem is given, the exelem file is read
\* into the region after the input file and before the first refinement.
Claim_C1 ==
    (/\ InputExists
     /\ args.exelem # None
     /\ context
     /\ pc \in {"groups", "faces", "subelements", "refine", "refine_loop",
                "write_zinc", "write_vtk", "done"})
    => \E i \in 1..Len(trace) :
          /\ trace[i].op = "readExelem"
          /\ \E j \in 1..(i - 1) : trace[j].op = "readInput"
          /\ \A k \in 1..(i - 1) : trace[k].op # "refine"

\* C2: _get_mesh returns the mesh of the highest dimension that has elements,
\* raises exactly when the three meshes are empty, and only elements of the
\* returned mesh are refined.
Thm_C2 ==
    PastGetMesh =>
        /\ mesh_dim = Dominant(sizes)
        /\ (err = "ValueError: Model contains no mesh") <=> (sizes = NoZeros)
        /\ \A i \in 1..Len(calls) : calls[i].dim = Dominant(sizes)

Wit_C2 ==
    /\ mesh_dim = 2
    /\ sizes[3] = 0
    /\ sizes[1] > 0
    /\ Len(calls) > 0

\* C3: when input_ex does not exist main() does nothing at all and ends
\* without an error, whatever the other arguments are.
Thm_C3 ==
    ~InputExists =>
        /\ pc \in {"main", "done"}
        /\ err = "none"
        /\ ~context
        /\ trace = <<>>
        /\ calls = <<>>
        /\ output_ex = <<>>
        /\ output_vtk = <<>>

Wit_C3 ==
    /\ ~InputExists
    /\ pc = "done"
    /\ args.refine_factor = Some(<<",">>)
    /\ args.exelem # None

\* a -r argument of digits with a zero among the three counts _refine reads
ZeroSupplied ==
    /\ args.refine_factor # None
    /\ \A i \in 1..Len(args.refine_factor[1]) : IsDigit(args.refine_factor[1][i])
    /\ \E i \in 1..Len(args.refine_factor[1]) :
          i <= 3 /\ args.refine_factor[1][i] = "0"

\* C4: a refinement spec with a count below 1 is rejected: no element is
\* refined with such a count, the run does not end normally and neither
\* output file is written.
Claim_C4 ==
    (InputExists /\ ZeroSupplied) =>
        /\ \A i \in 1..Len(calls) : \A a \in 1..3 : calls[i].n[a] >= 1
        /\ Written = 0
        /\ pc # "done"

\* the read raised, or the region holds no element once the input is read
LoadError ==
    \/ err = "ReadError"
    \/ /\ context
       /\ pc \notin {"read_input"}
       /\ err # "ReadError"
       /\ sizes = NoZeros

\* the -r argument holds a character int() rejects
InvalidFactor ==
    /\ args.refine_factor # None
    /\ \E i \in 1..Len(args.refine_factor[1]) : ~IsDigit(args.refine_factor[1][i])

ExtDot(name) ==
    LET k == LastIndexOf(name, ".", Len(name)) IN
    IF k > 0 /\ \E i \in 1..(k - 1) : name[i] # "." THEN k ELSE Len(name) + 1

Stem(name) == SubSeq(name, 1, ExtDot(name) - 1)
Ext(name) == SubSeq(name, ExtDot(name) + 1, Len(name))

\* C6: without -oe the native output is <input_basename>_refined.<input_ext>
\* beside the input, for every input name.
Claim_C6 ==
    (/\ pc # "main"
     /\ InputExists
     /\ args.output_ex = None
     /\ basename(args.input_ex) # <<>>) =>
        output_ex = join(dirname(args.input_ex),
                         Stem(basename(args.input_ex)) \o refined_dot
                             \o Ext(basename(args.input_ex)))

RECURSIVE Decimal(_)
\* the decimal digits of a natural number
Decimal(n) ==
    IF n < 10 THEN <<DigitChars[n + 1]>>
    ELSE Decimal(n \div 10) \o <<DigitChars[(n % 10) + 1]>>

RECURSIVE Concat(_)
Concat(ss) == IF ss = <<>> THEN <<>> ELSE Head(ss) \o Concat(Tail(ss))

\* a sequence of integers written without commas
CommaFree(vals) == Concat([i \in 1..Len(vals) |-> Decimal(vals[i])])

FactorVals == {0, 1, 2, 10, 12}

\* C7: the factors passed on are [4,4,1] without -r, and otherwise the one to
\* three integers supplied, in order, none dropped or split.
Claim_C7 ==
    pc = "init" =>
        /\ args.refine_factor = None => refine_factor = <<4, 4, 1>>
        /\ \A vals \in SeqsUpTo(FactorVals, 1, 3) :
              args.refine_factor = Some(CommaFree(vals)) => refine_factor = vals

\* C8: an element of dimension d is refined with the supplied counts on the
\* axes 1..d and with 1 on every axis beyond d or without a supplied count.
Claim_C8 ==
    \A i \in 1..Len(calls) : \A a \in 1..3 :
        calls[i].n[a] = IF a <= calls[i].dim /\ a <= Len(refine_factor)
                        THEN refine_factor[a] ELSE 1

\* the steps of a run over g groups and k elements in which nothing fails
ExpectedOps(g, k) ==
    <<"readInput", "groups", "defineAllFaces">>
    \o [i \in 1..g |-> "addSubelements"]
    \o [i \in 1..k |-> "refine"]
    \o <<"writeZinc", "writeVtk">>

ExpectedArgs(g, k) ==
    <<0, 0, 0>> \o [i \in 1..g |-> i] \o [i \in 1..k |-> i] \o <<0, 0>>

\* C9: a run that does not fail reads the input, derives the groups, defines
\* the faces, closes every group once, refines every element once and writes
\* the native file and then the VTK file; no file is written before the
\* refinement loop has ended.
Thm_C9 ==
    /\ (pc = "done" /\ InputExists) =>
          /\ sizes[mesh_dim] >= 1
          /\ Ops(trace) = ExpectedOps(groups, sizes[mesh_dim])
          /\ [i \in 1..Len(trace) |-> trace[i].arg]
                = ExpectedArgs(groups, sizes[mesh_dim])
    /\ Written > 0 =>
          /\ Count(trace, "refine") = sizes[mesh_dim]
          /\ element = sizes[mesh_dim] + 1

Wit_C9 ==
    /\ pc = "done"
    /\ InputExists
    /\ groups = 2
    /\ sizes[mesh_dim] = 2
    /\ Written = 2

\* every call so far: element i at position i, valid, with the first call's counts
CallsInOrder ==
    \A i \in 1..Len(calls) :
        /\ calls[i].idx = i
        /\ calls[i].dim = mesh_dim
        /\ isValid(calls[i].idx, sizes[mesh_dim])
        /\ calls[i].n = calls[1].n

\* C10: the loop of _refine ends, having called refineElementCubeStandard3d
\* once on each element in iterator order with one and the same counts, never
\* on an invalid element, and the refine-factor list is not changed.
Thm_C10 ==
    /\ [](CallsInOrder /\ (LoopEnded => Len(calls) = sizes[mesh_dim]))
    /\ [][pc = "refine_loop" => refine_factor' = refine_factor]_vars
    /\ (pc = "refine_loop" ~> pc # "refine_loop")

Wit_C10 ==
    /\ pc = "write_zinc"
    /\ Len(calls) = 2
    /\ Len(refine_factor) = 2

====
